---- MODULE Spec2Model ----
(***************************************************************************)
(* PolarRec Zotero plugin: the recommendation controller                   *)
(* (MainViewController, multi-target version with the snapshot-text        *)
(* fallback) and the two-section MainView it drives.                       *)
(*                                                                         *)
(* Text values are sequences of one-token strings, so that concatenation,  *)
(* regular-expression matching and emptiness are computed, not assumed.    *)
(***************************************************************************)
EXTENDS Integers, Sequences, FiniteSets, TLC

VARIABLES
  recoArxivRsDbAllowed,       \* controller field #recoArxivRsDbAllowed
  recoIeeeXploreRsDbAllowed,  \* controller field #recoIeeeXploreRsDbAllowed
  recoAuthorsFiltered,        \* controller field #recoAuthorsFiltered
  recoConfNameFiltered,       \* controller field #recoConfNameFiltered
  loadElem,                   \* the status element: [display, innerText]
  sectionElems,               \* display of each result section header
  resultElems,                \* the written result views of each section
  invocations,                \* the invocations started so far, in click order
  handled,                    \* history: what settled the POST last handled since the last click
  adaptItem,                  \* record adapter run on its own: the record
  adaptRun,                   \* record adapter run on its own: its position and data
  singleTarget,               \* single-target controller: the selected record and the
                              \* body of its last POST
  tracing                     \* history: whether an invocation keeps the toggles of its click

vars == <<recoArxivRsDbAllowed, recoIeeeXploreRsDbAllowed, recoAuthorsFiltered,
          recoConfNameFiltered, loadElem, sectionElems, resultElems,
          invocations, handled, adaptItem, adaptRun, singleTarget, tracing>>

ctlVars == <<recoArxivRsDbAllowed, recoIeeeXploreRsDbAllowed, recoAuthorsFiltered,
             recoConfNameFiltered, loadElem, sectionElems, resultElems, invocations,
             handled>>

(***************************************************************************)
(* Bounds of the model.                                                    *)
(***************************************************************************)
MaxDateLen == 6
MaxHtmlLen == 4
MaxCreators == 3
MaxOutstanding == 2
MaxResults == 2

(***************************************************************************)
(* Characters and texts.                                                   *)
(***************************************************************************)
DigitChars == {"0", "1", "2", "3", "4", "5", "6", "7", "8", "9"}
LetterChars == {"a", "b", "E", "I", "P", "T", "X", "x"}
SpaceChars == {" "}

IsDigit(c) == c \in DigitChars

\* \w of a JavaScript regular expression: [A-Za-z0-9_]
IsWordChar(c) == c \in DigitChars \cup LetterChars \cup {"_"}

\* All sequences over alphabet S of length at most n.
TextsUpTo(S, n) == UNION {[1..k -> S] : k \in 0..n}

Min(S) == CHOOSE x \in S : \A y \in S : x <= y

\* JavaScript undefined, where a text or a list is expected.
Undefined == <<"#undefined">>

\* An object without own properties.
EmptyObject == [k \in {} |-> <<>>]

\* The item the host returns when nothing is selected
\* (ZoteroPane.getSelectedItems(false)[0] of an empty array).
NoItem == [itemType |-> "#undefined", creators |-> <<>>,
           fields |-> [f \in {} |-> <<>>], attachments |-> <<>>]

(***************************************************************************)
(* Record adapter.                                                         *)
(***************************************************************************)
FieldNames == {"conferenceName", "place", "title", "date", "abstractNote", "DOI", "url"}

getField(item, name) == item.fields[name]

\* Mutant: every creator is taken, whatever its role.
getAuthorsFromZoteroItem_AnyRole(item) ==
  [i \in 1..Len(item.creators) |->
     item.creators[i].firstName \o <<" ">> \o item.creators[i].lastName]

getAuthorsFromZoteroItem(item) ==
  LET authors == SelectSeq(item.creators, LAMBDA c : c.creatorType = "author")
  IN [i \in 1..Len(authors) |-> authors[i].firstName \o <<" ">> \o authors[i].lastName]

\* \b at position i of s: between s[i-1] and s[i], the ends of s counting
\* as non-word characters.
WordBoundary(s, i) ==
  LET before == i > 1 /\ IsWordChar(s[i - 1])
      after == i <= Len(s) /\ IsWordChar(s[i])
  IN before # after

\* /\b\d{4}\b/ matches s at position i.
YearMatchAt(s, i) ==
  /\ i + 3 <= Len(s)
  /\ \A k \in i..(i + 3) : IsDigit(s[k])
  /\ WordBoundary(s, i)
  /\ WordBoundary(s, i + 4)

\* The earlier controllers' #getYearFromZoteroItem: candidates[0] of
\* itemDate.match(/[^\d]\d{4}[^\d]/), the whole match.
getYearFromZoteroItemFlanked(item) ==
  LET itemDate == getField(item, "date")
      candidates == {i \in 1..Len(itemDate) :
                       /\ i + 5 <= Len(itemDate)
                       /\ ~IsDigit(itemDate[i])
                       /\ \A k \in (i + 1)..(i + 4) : IsDigit(itemDate[k])
                       /\ ~IsDigit(itemDate[i + 5])}
  IN IF candidates = {} THEN <<>>
     ELSE SubSeq(itemDate, Min(candidates), Min(candidates) + 5)

\* Mutant: the match of /[^\d]\d{4}[^\d]/ is returned, flanking characters and all.
getYearFromZoteroItem_WithFlanks(item) == getYearFromZoteroItemFlanked(item)

getYearFromZoteroItem(item) ==
  LET itemDate == getField(item, "date")
      candidates == {i \in 1..Len(itemDate) : YearMatchAt(itemDate, i)}
  IN IF candidates = {} THEN <<>>
     ELSE SubSeq(itemDate, Min(candidates), Min(candidates) + 3)

\* HTML documents are sequences of these tokens: the paragraph tags, another
\* tag, a text character and a line break.
HtmlTokens == {"<p>", "</p>", "<b>", "x", "\n"}
IsTag(t) == t \in {"<p>", "</p>", "<b>"}

\* The first match of /<p\b[^>]*>(.*?)<\/p>/ at or after position from:
\* <<i, j>> with the opening tag at i and the closing tag at j, <<0, 0>> if none.
\* The lazy (.*?) stops at the first closing tag and does not cross a line break.
PTagMatchFrom(html, from) ==
  LET closes(i) == {j \in (i + 1)..Len(html) : html[j] = "</p>"}
      ok(i) == /\ html[i] = "<p>"
               /\ closes(i) # {}
               /\ \A k \in (i + 1)..(Min(closes(i)) - 1) : html[k] # "\n"
      starts == {i \in from..Len(html) : ok(i)}
  IN IF starts = {} THEN <<0, 0>>
     ELSE <<Min(starts), Min(closes(Min(starts)))>>

\* htmlString.match(/<p\b[^>]*>(.*?)<\/p>/g): the matches, left to right.
RECURSIVE PTagTokens(_, _)
PTagTokens(html, from) ==
  LET m == PTagMatchFrom(html, from)
  IN IF m[1] = 0 THEN <<>>
     ELSE <<SubSeq(html, m[1], m[2])>> \o PTagTokens(html, m[2] + 1)

\* tokens.join(" ")
RECURSIVE JoinWithSpace(_)
JoinWithSpace(tokens) ==
  IF Len(tokens) = 0 THEN <<>>
  ELSE IF Len(tokens) = 1 THEN tokens[1]
  ELSE tokens[1] \o <<" ">> \o JoinWithSpace(Tail(tokens))

getHtmlPTagText(htmlString) ==
  LET pTagTokens == PTagTokens(htmlString, 1)
  IN IF pTagTokens = <<>> THEN <<>>
     ELSE SelectSeq(JoinWithSpace(pTagTokens), LAMBDA t : ~IsTag(t))

\* Lines 109-136 of getDataFromZoteroItem: the fields read directly, the
\* empty ones left out.
DirectData(item) ==
  LET values == [authors |-> getAuthorsFromZoteroItem(item),
                 conference_name |-> getField(item, "conferenceName"),
                 conference_location |-> getField(item, "place"),
                 title |-> getField(item, "title"),
                 year |-> getYearFromZoteroItem(item),
                 abstract |-> getField(item, "abstractNote"),
                 doi |-> getField(item, "DOI"),
                 url |-> getField(item, "url")]
  IN [k \in {f \in DOMAIN values : values[f] # <<>>} |-> values[k]]

\* The earlier controllers' synchronous #getDataFromZoteroItem: the same
\* direct reads, the year taken by the earlier rule, no snapshot.
getDataFromZoteroItemSync(item) ==
  LET values == [authors |-> getAuthorsFromZoteroItem(item),
                 conference_name |-> getField(item, "conferenceName"),
                 conference_location |-> getField(item, "place"),
                 title |-> getField(item, "title"),
                 year |-> getYearFromZoteroItemFlanked(item),
                 abstract |-> getField(item, "abstractNote"),
                 doi |-> getField(item, "DOI"),
                 url |-> getField(item, "url")]
  IN [k \in {f \in DOMAIN values : values[f] # <<>>} |-> values[k]]

IsWebItem(item) == item.itemType = "encyclopediaArticle" \/ item.itemType = "webpage"

\* getDataFromZoteroItem up to its first await (or its return): the position
\* of the adaptation and the data built so far.
\*   "rejected": the promise is rejected (item is undefined)
\*   "fetching": the snapshot attachment is being fetched
\*   "done": the promise is resolved with data
AdaptBegin(item) ==
  IF item = NoItem THEN [st |-> "rejected", data |-> EmptyObject]
  ELSE IF IsWebItem(item) /\ Len(item.attachments) # 0
       THEN [st |-> "fetching", data |-> DirectData(item)]
       ELSE [st |-> "done", data |-> DirectData(item)]

\* Mutant: the text of the snapshot replaces the abstract read directly.
WithSnapshotText_Replaces(data, responseText) ==
  [k \in DOMAIN data \cup {"abstract"} |->
     IF k = "abstract" THEN getHtmlPTagText(responseText) ELSE data[k]]

\* Lines 170-177: the text of the snapshot goes into data.abstract.
WithSnapshotText(data, responseText) ==
  LET pTagText == getHtmlPTagText(responseText)
      abstract == IF "abstract" \in DOMAIN data
                  THEN data["abstract"] \o pTagText
                  ELSE pTagText
  IN [k \in DOMAIN data \cup {"abstract"} |->
        IF k = "abstract" THEN abstract ELSE data[k]]

\* getDataFromZoteroItem after the snapshot fetch has settled.
\* outcome.kind: "ok" (with outcome.text), "notok" (response.ok is false),
\* "rejected" (window.fetch or response.text() rejected).
AdaptResume(run, outcome) ==
  IF outcome.kind = "rejected" THEN [st |-> "rejected", data |-> run.data]
  ELSE IF outcome.kind = "notok" THEN [st |-> "done", data |-> run.data]
  ELSE [st |-> "done", data |-> WithSnapshotText(run.data, outcome.text)]

HtmlDocs == TextsUpTo(HtmlTokens, MaxHtmlLen)

FetchOutcomes(docs) ==
  {[kind |-> "ok", text |-> d] : d \in docs}
    \cup {[kind |-> "notok", text |-> <<>>], [kind |-> "rejected", text |-> <<>>]}

(***************************************************************************)
(* The records the adapter is run on.                                      *)
(***************************************************************************)
JaneDoe == [creatorType |-> "author", firstName |-> <<"J">>, lastName |-> <<"D">>]
EdItor == [creatorType |-> "editor", firstName |-> <<"E">>, lastName |-> <<"I">>]
JohnRoe == [creatorType |-> "author", firstName |-> <<"R">>, lastName |-> <<>>]
Creators == {JaneDoe, EdItor, JohnRoe}

Snapshot == "file:///storage/snapshot.html"

BaseFields == [f \in FieldNames |->
                 IF f = "title" THEN <<"P", "X">>
                 ELSE IF f = "date" THEN <<"2", "0", "2", "0">>
                 ELSE <<>>]

BaseItem == [itemType |-> "journalArticle", creators |-> <<>>,
             fields |-> BaseFields, attachments |-> <<>>]

DateChars == {"1", "9", "a", "_", " "}
DateItems ==
  {[BaseItem EXCEPT !.fields["date"] = d] : d \in TextsUpTo(DateChars, MaxDateLen)}

FieldTexts == {<<>>, <<" ">>, <<"T">>}
DirectFields == FieldNames \ {"date"}
FieldItems ==
  {[BaseItem EXCEPT !.fields = [f \in FieldNames |->
                                  IF f = "date" THEN BaseFields[f] ELSE fs[f]]] :
     fs \in [DirectFields -> FieldTexts]}

CreatorItems ==
  {[BaseItem EXCEPT !.creators = cs] : cs \in TextsUpTo(Creators, MaxCreators)}

WebItems ==
  {[BaseItem EXCEPT !.itemType = t, !.attachments = a, !.fields["abstractNote"] = abs] :
     t \in {"webpage", "encyclopediaArticle", "journalArticle"},
     a \in {<<>>, <<Snapshot>>},
     abs \in FieldTexts}

AdaptItems == DateItems \cup FieldItems \cup CreatorItems \cup WebItems

NotStarted == [st |-> "idle", data |-> EmptyObject]

AdaptStart ==
  /\ adaptRun.st = "idle"
  /\ adaptRun' = AdaptBegin(adaptItem)
  /\ UNCHANGED <<adaptItem, singleTarget, tracing, ctlVars>>

AdaptSnapshotSettled ==
  /\ adaptRun.st = "fetching"
  /\ \E outcome \in FetchOutcomes(HtmlDocs) :
       adaptRun' = AdaptResume(adaptRun, outcome)
  /\ UNCHANGED <<adaptItem, singleTarget, tracing, ctlVars>>

\* The earlier adapter run on adaptItem.
AdaptSync ==
  /\ adaptRun.st = "idle"
  /\ adaptRun' = [st |-> "done", data |-> getDataFromZoteroItemSync(adaptItem)]
  /\ UNCHANGED <<adaptItem, singleTarget, tracing, ctlVars>>

\* The single-target controller before its first click, no record chosen.
NoSingleBody == [targets |-> <<>>, existing_related |-> <<>>, filter |-> EmptyObject]
NoSingleTarget == [selected |-> NoItem, body |-> NoSingleBody]

(***************************************************************************)
(* MainView: the status element and the result sections.                   *)
(***************************************************************************)
MAX_RESULT_COUNT == 50
SectionCount == 2

Sections == 0..(SectionCount - 1)
Slots == 0..(MAX_RESULT_COUNT - 1)

\* getString("polarrec.reco.load")
LoadText == <<"polarrec.reco.load">>

\* The elements as register() builds them.
InitialLoadElem == [display |-> "none", innerText |-> LoadText]

InitialSlot(i) ==
  [display |-> "none",
   title |-> <<"Related Resource ", ToString(i)>>,
   authors |-> <<"No Authors">>,
   year |-> <<"No Year">>,
   url |-> <<"No URL">>,
   authorRank |-> <<"No Author-Based Ranking">>,
   citationRank |-> <<"No Citation-Based Ranking">>,
   citCountRank |-> <<"No Citation Count Ranking">>,
   keywordRank |-> <<"No Keyword-Based Ranking">>]

InitialSectionElems == [l \in Sections |-> "none"]
\* The result views of a section are kept for the slots updateResultViews has
\* written so far; a slot beyond them is as register() built it.
InitialResultElems == [l \in Sections |-> [i \in {} |-> InitialSlot(i)]]

SlotAt(slots, i) == IF i \in DOMAIN slots THEN slots[i] ELSE InitialSlot(i)

updateLoadingView(elem, isLoading, customText) ==
  IF customText # Undefined
  THEN [display |-> "block", innerText |-> customText]
  ELSE [display |-> IF isLoading THEN "block" ELSE "none", innerText |-> LoadText]

\* The text of a property of a result entry; a missing property reads undefined.
Prop(result, name) == IF name \in DOMAIN result THEN result[name] ELSE <<"undefined">>

\* authors.reduce((text, author) => text + ", " + author), authors not empty.
RECURSIVE ReduceAuthors(_)
ReduceAuthors(authors) ==
  IF Len(authors) = 1 THEN authors[1]
  ELSE ReduceAuthors(SubSeq(authors, 1, Len(authors) - 1)) \o <<", ">> \o authors[Len(authors)]

\* reduce() of an empty array without an initial value throws a TypeError.
EntryThrows(result) == "authors" \in DOMAIN result /\ result["authors"] = <<>>

\* Mutant: the ranking fields are shown without their labels.
FilledSlot_UnlabelledRanks(result) ==
  [display |-> "block",
   title |-> Prop(result, "title"),
   authors |-> IF "authors" \in DOMAIN result
               THEN ReduceAuthors(result["authors"])
               ELSE Prop(result, "year"),
   year |-> IF "year" \in DOMAIN result THEN result["year"] ELSE <<"No Year">>,
   url |-> IF "url" \in DOMAIN result THEN result["url"] ELSE <<"No URL">>,
   authorRank |-> Prop(result, "author_based_ranking"),
   citationRank |-> Prop(result, "citation_based_ranking"),
   citCountRank |-> Prop(result, "citation_count_ranking"),
   keywordRank |-> Prop(result, "keyword_based_ranking")]

\* Lines 400-426: a slot filled with a result and shown.
FilledSlot(result) ==
  [display |-> "block",
   title |-> Prop(result, "title"),
   authors |-> IF "authors" \in DOMAIN result
               THEN ReduceAuthors(result["authors"])
               ELSE Prop(result, "year"),
   year |-> IF "year" \in DOMAIN result THEN result["year"] ELSE <<"No Year">>,
   url |-> IF "url" \in DOMAIN result THEN result["url"] ELSE <<"No URL">>,
   authorRank |-> <<"Author-based ranking:\t">> \o Prop(result, "author_based_ranking"),
   citationRank |-> <<"Citation-based ranking:\t">> \o Prop(result, "citation_based_ranking"),
   citCountRank |-> <<"Citation count ranking:\t">> \o Prop(result, "citation_count_ranking"),
   keywordRank |-> <<"Keyword-based ranking:\t">> \o Prop(result, "keyword_based_ranking")]

\* Mutant: an entry without a slot makes the loop throw.
FirstThrow_NoSlotThrows(rs) ==
  LET bad == {i \in 1..Len(rs) : i > MAX_RESULT_COUNT \/ EntryThrows(rs[i])}
  IN IF bad = {} THEN 0 ELSE Min(bad)

\* The loops of updateResultViews for section l, whose results are rs
\* (rs[i + 1] goes to slot i).  thrown: the index of the first result, among
\* those that have a slot, on which the loop throws, 0 if none.
FirstThrow(rs) ==
  LET bad == {i \in 1..Len(rs) : i <= MAX_RESULT_COUNT /\ EntryThrows(rs[i])}
  IN IF bad = {} THEN 0 ELSE Min(bad)

\* Mutant: the slots beyond the results are left as they are.
UpdatedSlots_KeepsRest(slots, rs) ==
  LET t == FirstThrow(rs)
      written == {i \in Slots : i < (IF t = 0 THEN Len(rs) ELSE t)}
  IN [i \in DOMAIN slots \cup written |->
        IF t = 0
        THEN IF i < Len(rs) THEN FilledSlot(rs[i + 1])
             ELSE slots[i]
        ELSE IF i + 1 < t THEN FilledSlot(rs[i + 1])
             ELSE IF i + 1 = t THEN [SlotAt(slots, i) EXCEPT !.title = Prop(rs[t], "title")]
             ELSE slots[i]]

UpdatedSlots(slots, rs) ==
  LET t == FirstThrow(rs)
      written == {i \in Slots : i < (IF t = 0 THEN Len(rs) ELSE t)}
  IN [i \in DOMAIN slots \cup written |->
        IF t = 0
        THEN IF i < Len(rs) THEN FilledSlot(rs[i + 1])
             ELSE [slots[i] EXCEPT !.display = "none"]
        ELSE IF i + 1 < t THEN FilledSlot(rs[i + 1])
             ELSE IF i + 1 = t THEN [SlotAt(slots, i) EXCEPT !.title = Prop(rs[t], "title")]
             ELSE slots[i]]

\* updateResultViews(results) on the view v = [sections, slots]: the view it
\* leaves and whether it threw.  An empty results clears every section.
RECURSIVE UpdateFromSection(_, _, _)
UpdateFromSection(v, results, l) ==
  IF l = SectionCount THEN [sections |-> v.sections, slots |-> v.slots, threw |-> FALSE]
  ELSE LET rs == results[l + 1]
           w == [sections |-> [v.sections EXCEPT ![l] = IF Len(rs) = 0 THEN "none" ELSE "block"],
                 slots |-> [v.slots EXCEPT ![l] = UpdatedSlots(v.slots[l], rs)]]
       IN IF FirstThrow(rs) # 0
          THEN [sections |-> w.sections, slots |-> w.slots, threw |-> TRUE]
          ELSE UpdateFromSection(w, results, l + 1)

updateResultViews(v, results) ==
  UpdateFromSection(v, IF Len(results) = 0 THEN [l \in 1..SectionCount |-> <<>>] ELSE results, 0)

(***************************************************************************)
(* MainViewController: the request and the handling of its response.       *)
(***************************************************************************)
\* #getApiUrlBase() of a production build, and the URL of the request.
getApiUrlBase == <<"http://34.73.167.164:8080">>
ApiUrl == getApiUrlBase \o <<"/recommend">>

\* error.toString() of an error with this name and message.
ErrorText(name, message) == <<name, ": ">> \o message

\* Mutant: the conference name is filed under the authors toggle.
getRecoFilter_SwappedToggle(targetData) ==
  LET keys == {k \in {"authors", "conference_name"} :
                 /\ k \in DOMAIN targetData[1]
                 /\ recoAuthorsFiltered}
  IN [k \in keys |-> targetData[1][k]]

\* #getRecoFilter(targetData), targetData not empty.
getRecoFilter(targetData) ==
  LET keys == {k \in {"authors", "conference_name"} :
                 /\ k \in DOMAIN targetData[1]
                 /\ \/ k = "authors" /\ recoAuthorsFiltered
                    \/ k = "conference_name" /\ recoConfNameFiltered}
  IN [k \in keys |-> targetData[1][k]]

\* Mutant: the IEEE Xplore identifier is pushed first.
ResourceDatabases_IeeeFirst ==
  (IF recoIeeeXploreRsDbAllowed THEN <<"ieeexplore">> ELSE <<>>)
    \o (IF recoArxivRsDbAllowed THEN <<"arxiv">> ELSE <<>>)

\* Lines 226-230 of #sendRecoRequest.
ResourceDatabases ==
  (IF recoArxivRsDbAllowed THEN <<"arxiv">> ELSE <<>>)
    \o (IF recoIeeeXploreRsDbAllowed THEN <<"ieeexplore">> ELSE <<>>)

NoBody == [target_resources |-> <<>>, existing_resources |-> <<>>,
           filter |-> EmptyObject, resource_databases |-> <<>>]

\* Mutant: the two lists of fragments change places.
RequestBody_ListsSwapped(targetData, existingData) ==
  [target_resources |-> existingData,
   existing_resources |-> targetData,
   filter |-> getRecoFilter(targetData),
   resource_databases |-> ResourceDatabases]

\* The body of the POST, lines 246-251; JSON.stringify keeps every own
\* property of the data objects, all of which hold texts or lists.
RequestBody(targetData, existingData) ==
  [target_resources |-> targetData,
   existing_resources |-> existingData,
   filter |-> getRecoFilter(targetData),
   resource_databases |-> ResourceDatabases]

\* procTime.toFixed(3), procTime given in units of 1/10000 second.
Digit(n) == ToString(n)
toFixed3(procTime) ==
  LET r == (procTime + 5) \div 10
  IN <<ToString(r \div 1000), ".", Digit((r \div 100) % 10), Digit((r \div 10) % 10), Digit(r % 10)>>

\* Mutant: the title of the first target, however many targets there are.
TargetText_AlwaysTitle(targetItems) ==
  <<"\"">> \o getField(targetItems[1], "title") \o <<"\"">>

\* Line 267.
TargetText(targetItems) ==
  IF Len(targetItems) = 1
  THEN <<"\"">> \o getField(targetItems[1], "title") \o <<"\"">>
  ELSE <<ToString(Len(targetItems)), " items">>

IsSummary(text) == Len(text) > 0 /\ text[1] = "Loaded "

\* Line 268.
ProcTimeText(resultLength, procTime, targetItems) ==
  <<"Loaded ", ToString(resultLength), " results in ">> \o toFixed3(procTime)
    \o <<" seconds for ">> \o TargetText(targetItems) \o <<".">>

\* What settles the POST.  kind is
\*   "rejected": window.fetch rejects (network failure)
\*   "notok":    a response whose ok is false, with status and statusText
\*   "badjson":  a 2xx response whose body is not JSON
\*   "json":     a 2xx response with the object json as its body
Outcome(kind, status, statusText, json) ==
  [kind |-> kind, status |-> status, statusText |-> statusText, json |-> json]

\* No POST has settled.
NoOutcome == Outcome("none", <<>>, <<>>, EmptyObject)

\* The error the promise chain of lines 253-268 ends with before the view is
\* touched, Undefined if it gets to line 270.
ErrorBeforeView(outcome) ==
  IF outcome.kind = "rejected"
  THEN ErrorText("TypeError", <<"NetworkError when attempting to fetch resource.">>)
  ELSE IF outcome.kind = "notok"
  THEN ErrorText("Error", ApiUrl \o <<": ">> \o outcome.status \o <<": ">> \o outcome.statusText)
  ELSE IF outcome.kind = "badjson"
  THEN ErrorText("SyntaxError", <<"JSON.parse: unexpected character">>)
  ELSE IF "ranked_existing_resources" \notin DOMAIN outcome.json
  THEN ErrorText("TypeError", <<"rankedExistingData is undefined">>)
  ELSE IF "ranked_database_resources" \notin DOMAIN outcome.json
  THEN ErrorText("TypeError", <<"rankedDatabaseData is undefined">>)
  ELSE IF "processing_time" \notin DOMAIN outcome.json
  THEN ErrorText("TypeError", <<"procTime is undefined">>)
  ELSE Undefined

ReduceErrorText == ErrorText("TypeError", <<"reduce of empty array with no initial value">>)

\* Mutant: the catch handler shows the default text instead of the error.
HandleResponse_ErrorUnshown(v, elem, targetItems, outcome) ==
  [sections |-> v.sections, slots |-> v.slots,
   load |-> updateLoadingView(elem, FALSE, Undefined)]

\* Mutant: the results are populated before the processing time is used.
HandleResponse_ViewFirst(v, elem, targetItems, outcome) ==
  IF outcome.kind # "json"
       \/ "ranked_existing_resources" \notin DOMAIN outcome.json
       \/ "ranked_database_resources" \notin DOMAIN outcome.json
  THEN [sections |-> v.sections, slots |-> v.slots,
        load |-> updateLoadingView(elem, FALSE, ErrorBeforeView(outcome))]
  ELSE LET rankedExistingData == outcome.json["ranked_existing_resources"]
           rankedDatabaseData == outcome.json["ranked_database_resources"]
           resultLength == Len(rankedExistingData) + Len(rankedDatabaseData)
           w == updateResultViews(v, <<rankedExistingData, rankedDatabaseData>>)
       IN [sections |-> w.sections, slots |-> w.slots,
           load |-> updateLoadingView(elem, FALSE,
                      IF w.threw THEN ReduceErrorText
                      ELSE IF "processing_time" \notin DOMAIN outcome.json
                      THEN ErrorBeforeView(outcome)
                      ELSE ProcTimeText(resultLength, outcome.json["processing_time"],
                                        targetItems))]

\* Lines 253-281: the view [sections, slots] and the status element after the
\* POST of an invocation with these targets has settled with outcome.
HandleResponse(v, elem, targetItems, outcome) ==
  IF ErrorBeforeView(outcome) # Undefined
  THEN [sections |-> v.sections, slots |-> v.slots,
        load |-> updateLoadingView(elem, FALSE, ErrorBeforeView(outcome))]
  ELSE LET rankedExistingData == outcome.json["ranked_existing_resources"]
           rankedDatabaseData == outcome.json["ranked_database_resources"]
           resultLength == Len(rankedExistingData) + Len(rankedDatabaseData)
           procTimeText == ProcTimeText(resultLength, outcome.json["processing_time"], targetItems)
           w == updateResultViews(v, <<rankedExistingData, rankedDatabaseData>>)
       IN [sections |-> w.sections, slots |-> w.slots,
           load |-> updateLoadingView(elem, FALSE,
                      IF w.threw THEN ReduceErrorText ELSE procTimeText)]

(***************************************************************************)
(* The host's library and what the server may answer.                      *)
(***************************************************************************)
Paper == [itemType |-> "journalArticle", creators |-> <<JaneDoe>>,
          fields |-> BaseFields, attachments |-> <<>>]

Talk == [itemType |-> "conferencePaper", creators |-> <<EdItor, JohnRoe>>,
         fields |-> [BaseFields EXCEPT !["conferenceName"] = <<"I">>,
                                       !["title"] = <<"T">>, !["date"] = <<>>],
         attachments |-> <<>>]

Page == [itemType |-> "webpage", creators |-> <<>>,
         fields |-> [BaseFields EXCEPT !["title"] = <<"P">>, !["date"] = <<>>],
         attachments |-> <<Snapshot>>]

Wiki == [itemType |-> "encyclopediaArticle", creators |-> <<>>,
         fields |-> [BaseFields EXCEPT !["title"] = <<"E">>, !["abstractNote"] = <<"a">>],
         attachments |-> <<>>]

\* What ZoteroPane returns: the first selected item and the sorted items in view.
HostStates ==
  {[selected |-> NoItem, sorted |-> <<>>],
   [selected |-> Paper, sorted |-> <<Talk, Paper>>],
   [selected |-> Page, sorted |-> <<Page, Wiki>>]}

SnapshotDocs == {<<"<p>", "x", "</p>">>}

Result1 == [title |-> <<"R1">>, authors |-> << <<"A">>, <<"B">> >>, year |-> <<"2021">>,
            url |-> <<"u1">>, author_based_ranking |-> <<"1">>,
            citation_based_ranking |-> <<"2">>, citation_count_ranking |-> <<"3">>,
            keyword_based_ranking |-> <<"4">>]

Result2 == [title |-> <<"R2">>, author_based_ranking |-> <<"5">>,
            citation_based_ranking |-> <<"6">>, citation_count_ranking |-> <<"7">>,
            keyword_based_ranking |-> <<"8">>]

Response(procTime, existing, database) ==
  [processing_time |-> procTime, ranked_existing_resources |-> existing,
   ranked_database_resources |-> database]

PostOutcomes ==
  {Outcome("json", <<"200">>, <<"OK">>, Response(12345, <<>>, <<Result1, Result2>>)),
   Outcome("notok", <<"500">>, <<"INTERNAL SERVER ERROR">>, EmptyObject),
   Outcome("rejected", <<>>, <<>>, EmptyObject)}

(***************************************************************************)
(* Invocations.  An invocation is one click and the call of                *)
(* #sendRecoRequest it makes; its pc is                                    *)
(*   "clicked":  the click handler has updated the view (lines 355-360)    *)
(*   "targets":  awaiting Promise.all of the targets' adaptations          *)
(*   "existing": awaiting Promise.all of the existing items' adaptations   *)
(*   "posting":  window.fetch has been called with body                    *)
(*   "posted":   the POST is outstanding                                   *)
(*   "rejected": the promise of #sendRecoRequest is rejected; nobody       *)
(*               handles it                                                *)
(* A finished invocation (handled response, or rejected promise) leaves    *)
(* the list.  overlap is history: "none" while no other invocation has     *)
(* been live during its life, "overlapped" once one has, "overtaken" once  *)
(* an invocation started after it has had its response shown; posts       *)
(* counts the calls of window.fetch(apiUrl, ...) it has made; settled      *)
(* lists, while the records are adapted, the positions of the records      *)
(* whose snapshot fetch has settled, in the order in which they did;       *)
(* atClick holds, when tracing, until the POST is with the transport, the   *)
(* four toggles as they were when the button was clicked.                  *)
(***************************************************************************)
NewInvocation(kind) ==
  [pc |-> "clicked", kind |-> kind, targetItems |-> <<>>, existingItems |-> <<>>,
   targetRuns |-> <<>>, existingRuns |-> <<>>, body |-> NoBody,
   overlap |-> IF Len(invocations) > 0 THEN "overlapped" ELSE "none",
   posts |-> 0, settled |-> <<>>,
   atClick |-> IF tracing
               THEN <<recoArxivRsDbAllowed, recoIeeeXploreRsDbAllowed,
                      recoAuthorsFiltered, recoConfNameFiltered>>
               ELSE <<>>]

\* The live invocations, once another one starts.
Overlapped ==
  [n \in 1..Len(invocations) |->
     [invocations[n] EXCEPT !.overlap = IF @ = "none" THEN "overlapped" ELSE @]]

AnyRejected(runs) == \E i \in 1..Len(runs) : runs[i].st = "rejected"
AllDone(runs) == \A i \in 1..Len(runs) : runs[i].st = "done"

\* Mutant: the fragments are collected last record first.
DataOf_Reversed(runs) == [i \in 1..Len(runs) |-> runs[Len(runs) + 1 - i].data]

DataOf(runs) == [i \in 1..Len(runs) |-> runs[i].data]

BeginAll(items) == [i \in 1..Len(items) |-> AdaptBegin(items[i])]

\* Lines 220-252, once Promise.all of the existing items has settled: the
\* filter and the databases are derived and the POST is made.  A rejected
\* adaptation rejects #sendRecoRequest, and so does #getRecoFilter on an
\* empty targetData (targetData[0] is undefined).
AfterExisting(inv) ==
  IF AnyRejected(inv.existingRuns) THEN [inv EXCEPT !.pc = "rejected"]
  ELSE IF ~AllDone(inv.existingRuns) THEN inv
  ELSE IF Len(inv.targetRuns) = 0 THEN [inv EXCEPT !.pc = "rejected"]
  ELSE [inv EXCEPT !.pc = "posting", !.posts = @ + 1,
                   !.body = RequestBody(DataOf(inv.targetRuns), DataOf(inv.existingRuns))]

\* Lines 217-220, once Promise.all of the targets has settled: the existing
\* items' adaptations start.
AfterTargets(inv) ==
  IF AnyRejected(inv.targetRuns) THEN [inv EXCEPT !.pc = "rejected"]
  ELSE IF ~AllDone(inv.targetRuns) THEN inv
  ELSE AfterExisting([inv EXCEPT !.pc = "existing",
                                 !.existingRuns = BeginAll(inv.existingItems)])

\* #sendRecoRequest run as far as it gets without a fetch settling: the
\* continuations after an await are microtasks, which run before any event.
Advance(inv) ==
  IF inv.pc = "targets" THEN AfterTargets(inv)
  ELSE IF inv.pc = "existing" THEN AfterExisting(inv)
  ELSE inv

\* Line 216: #sendRecoRequest(targetItems, existingItems) is called.
sendRecoRequest(inv, targetItems, existingItems) ==
  Advance([inv EXCEPT !.pc = "targets", !.targetItems = targetItems,
                      !.existingItems = existingItems,
                      !.targetRuns = BeginAll(targetItems)])

\* The invocations with inv as the n-th, or without it if its promise is rejected.
Put(n, inv) ==
  IF inv.pc = "rejected"
  THEN SubSeq(invocations, 1, n - 1) \o SubSeq(invocations, n + 1, Len(invocations))
  ELSE [invocations EXCEPT ![n] = inv]

\* A click handler is between its two halves, or window.fetch is being
\* called: no other event is handled in between.
Busy == \E n \in 1..Len(invocations) : invocations[n].pc \in {"clicked", "posting"}

View == [sections |-> sectionElems, slots |-> resultElems]

toggleVars == <<recoArxivRsDbAllowed, recoIeeeXploreRsDbAllowed,
                recoAuthorsFiltered, recoConfNameFiltered>>
viewVars == <<loadElem, sectionElems, resultElems>>
adaptVars == <<adaptItem, adaptRun, singleTarget, tracing>>

onRecoArxivRsDbClicked(checked) ==
  /\ ~Busy
  /\ recoArxivRsDbAllowed' = checked
  /\ UNCHANGED <<recoIeeeXploreRsDbAllowed, recoAuthorsFiltered, recoConfNameFiltered,
                 viewVars, invocations, handled, adaptVars>>

\* Mutant: the IEEE Xplore handler stores into the arXiv flag.
onRecoIeeeXploreRsDbClicked_StoresArxiv(checked) ==
  /\ ~Busy
  /\ recoArxivRsDbAllowed' = checked
  /\ UNCHANGED <<recoIeeeXploreRsDbAllowed, recoAuthorsFiltered, recoConfNameFiltered,
                 viewVars, invocations, handled, adaptVars>>

onRecoIeeeXploreRsDbClicked(checked) ==
  /\ ~Busy
  /\ recoIeeeXploreRsDbAllowed' = checked
  /\ UNCHANGED <<recoArxivRsDbAllowed, recoAuthorsFiltered, recoConfNameFiltered,
                 viewVars, invocations, handled, adaptVars>>

onRecoAuthorsFilterClicked(checked) ==
  /\ ~Busy
  /\ recoAuthorsFiltered' = checked
  /\ UNCHANGED <<recoArxivRsDbAllowed, recoIeeeXploreRsDbAllowed, recoConfNameFiltered,
                 viewVars, invocations, handled, adaptVars>>

onRecoConfNameFilterClicked(checked) ==
  /\ ~Busy
  /\ recoConfNameFiltered' = checked
  /\ UNCHANGED <<recoArxivRsDbAllowed, recoIeeeXploreRsDbAllowed, recoAuthorsFiltered,
                 viewVars, invocations, handled, adaptVars>>

\* Mutant: the click handler shows the loading text without clearing the results.
ClickView_NoClear(kind) ==
  /\ loadElem' = updateLoadingView(loadElem, TRUE, Undefined)
  /\ UNCHANGED <<sectionElems, resultElems>>
  /\ invocations' =
       Append(Overlapped, NewInvocation(kind))
  /\ handled' = NoOutcome

\* Lines 355-360 (and 372-377): the results are cleared and the loading text
\* is shown.
ClickView(kind) ==
  /\ \E v \in {updateResultViews(View, <<>>)} :
       /\ sectionElems' = v.sections
       /\ resultElems' = v.slots
  /\ loadElem' = updateLoadingView(loadElem, TRUE, Undefined)
  /\ invocations' =
       Append(Overlapped, NewInvocation(kind))
  /\ handled' = NoOutcome

\* The click on the single-item button, up to line 360.
onRecoItemButtonClicked ==
  /\ ~Busy
  /\ Len(invocations) < MaxOutstanding
  /\ ClickView("item")
  /\ UNCHANGED <<toggleVars, adaptVars>>

\* The click on the items-in-view button, up to line 377.
onRecoItemsInViewButtonClicked ==
  /\ ~Busy
  /\ Len(invocations) < MaxOutstanding
  /\ ClickView("view")
  /\ UNCHANGED <<toggleVars, adaptVars>>

\* Mutant: the single-item click leaves the selected record out of the
\* existing items.
StartRequest_SelectedLeftOut(n, host) ==
  /\ invocations[n].pc = "clicked"
  /\ invocations' =
       Put(n, IF invocations[n].kind = "item"
              THEN sendRecoRequest(invocations[n], <<host.selected>>,
                                   SelectSeq(host.sorted, LAMBDA item : item # host.selected))
              ELSE sendRecoRequest(invocations[n], host.sorted, <<>>))
  /\ UNCHANGED <<toggleVars, viewVars, handled, adaptVars>>

\* The rest of the click handler (lines 362-364, or 380-381): the items are
\* read from the host and #sendRecoRequest is called.
StartRequest(n, host) ==
  /\ invocations[n].pc = "clicked"
  /\ invocations' =
       Put(n, IF invocations[n].kind = "item"
              THEN sendRecoRequest(invocations[n], <<host.selected>>, host.sorted)
              ELSE sendRecoRequest(invocations[n], host.sorted, <<>>))
  /\ UNCHANGED <<toggleVars, viewVars, handled, adaptVars>>

\* window.fetch returns its pending promise; the body is with the transport.
RequestSent(n) ==
  /\ invocations[n].pc = "posting"
  /\ invocations' = [invocations EXCEPT
       ![n].pc = "posted", ![n].body = NoBody, ![n].existingItems = <<>>,
       ![n].targetRuns = <<>>, ![n].existingRuns = <<>>, ![n].settled = <<>>,
       ![n].atClick = <<>>]
  /\ UNCHANGED <<toggleVars, viewVars, handled, adaptVars>>

\* The fetch of a snapshot settles (lines 156-186 of one adaptation), and
\* #sendRecoRequest goes on if that was the last one it awaited.
SnapshotSettled(n, outcome) ==
  /\ ~Busy
  /\ \/ /\ invocations[n].pc = "targets"
        /\ \E i \in 1..Len(invocations[n].targetRuns) :
             /\ invocations[n].targetRuns[i].st = "fetching"
             /\ invocations' =
                  Put(n, Advance([invocations[n] EXCEPT
                                    !.targetRuns[i] = AdaptResume(@, outcome),
                                    !.settled = Append(@, i)]))
     \/ /\ invocations[n].pc = "existing"
        /\ \E i \in 1..Len(invocations[n].existingRuns) :
             /\ invocations[n].existingRuns[i].st = "fetching"
             /\ invocations' =
                  Put(n, Advance([invocations[n] EXCEPT
                                    !.existingRuns[i] = AdaptResume(@, outcome),
                                    !.settled = Append(@, i)]))
  /\ UNCHANGED <<toggleVars, viewVars, handled, adaptVars>>

\* The POST settles: lines 253-281.
PostSettled(n, outcome) ==
  /\ ~Busy
  /\ invocations[n].pc = "posted"
  /\ handled' = outcome
  /\ \E r \in {HandleResponse(View, loadElem, invocations[n].targetItems, outcome)} :
       /\ sectionElems' = r.sections
       /\ resultElems' = r.slots
       /\ loadElem' = r.load
       /\ invocations' =
            [m \in 1..(Len(invocations) - 1) |->
               IF m < n
               THEN [invocations[m] EXCEPT
                       !.overlap = IF IsSummary(r.load.innerText) THEN "overtaken" ELSE @]
               ELSE invocations[m + 1]]
  /\ UNCHANGED <<toggleVars, adaptVars>>

Live == 1..Len(invocations)

Init ==
  /\ recoArxivRsDbAllowed = FALSE
  /\ recoIeeeXploreRsDbAllowed = FALSE
  /\ recoAuthorsFiltered = FALSE
  /\ recoConfNameFiltered = FALSE
  /\ loadElem = InitialLoadElem
  /\ sectionElems = InitialSectionElems
  /\ resultElems = InitialResultElems
  /\ invocations = <<>>
  /\ handled = NoOutcome
  /\ adaptItem = BaseItem
  /\ adaptRun = NotStarted
  /\ singleTarget = NoSingleTarget
  /\ tracing = FALSE

Next ==
  \/ \E checked \in BOOLEAN : onRecoArxivRsDbClicked(checked)
  \/ \E checked \in BOOLEAN : onRecoIeeeXploreRsDbClicked(checked)
  \/ \E checked \in BOOLEAN : onRecoAuthorsFilterClicked(checked)
  \/ \E checked \in BOOLEAN : onRecoConfNameFilterClicked(checked)
  \/ onRecoItemButtonClicked
  \/ onRecoItemsInViewButtonClicked
  \/ \E n \in Live, host \in HostStates : StartRequest(n, host)
  \/ \E n \in Live : RequestSent(n)
  \/ \E n \in Live, outcome \in FetchOutcomes(SnapshotDocs) : SnapshotSettled(n, outcome)
  \/ \E n \in Live, outcome \in PostOutcomes : PostSettled(n, outcome)

Spec == Init /\ [][Next]_vars

(***************************************************************************)
(* The record adapter on its own, over many records.                       *)
(***************************************************************************)
InitAdapt ==
  /\ recoArxivRsDbAllowed = FALSE
  /\ recoIeeeXploreRsDbAllowed = FALSE
  /\ recoAuthorsFiltered = FALSE
  /\ recoConfNameFiltered = FALSE
  /\ loadElem = InitialLoadElem
  /\ sectionElems = InitialSectionElems
  /\ resultElems = InitialResultElems
  /\ invocations = <<>>
  /\ handled = NoOutcome
  /\ adaptItem \in AdaptItems
  /\ adaptRun = NotStarted
  /\ singleTarget = NoSingleTarget
  /\ tracing = FALSE

NextAdapt ==
  \/ AdaptStart
  \/ AdaptSnapshotSettled

SpecAdapt == InitAdapt /\ [][NextAdapt]_vars


(***************************************************************************)
(* One invocation at a time, the toggles left alone, over many responses   *)
(* and with several snapshot fetches pending at once.                      *)
(***************************************************************************)
Blog == [itemType |-> "webpage", creators |-> <<>>,
         fields |-> [BaseFields EXCEPT !["title"] = <<"B">>],
         attachments |-> <<Snapshot>>]

LoadHostStates ==
  {[selected |-> Paper, sorted |-> <<Paper>>],
   [selected |-> Talk, sorted |-> <<Talk, Paper>>],
   [selected |-> Page, sorted |-> <<Page, Blog>>]}

\* The 2xx responses whose lists hold up to MaxResults well-formed entries.
ResultLists == TextsUpTo({Result1, Result2}, MaxResults)

LoadOutcomes ==
  {Outcome("json", <<"200">>, <<"OK">>, Response(12345, existing, database)) :
     existing \in ResultLists, database \in ResultLists}

NextLoad ==
  \/ invocations = <<>> /\ onRecoItemButtonClicked
  \/ invocations = <<>> /\ onRecoItemsInViewButtonClicked
  \/ \E n \in Live, host \in LoadHostStates : StartRequest(n, host)
  \/ \E n \in Live : RequestSent(n)
  \/ \E n \in Live, outcome \in FetchOutcomes(SnapshotDocs) : SnapshotSettled(n, outcome)
  \/ \E n \in Live, outcome \in LoadOutcomes : PostSettled(n, outcome)

SpecLoad == Init /\ [][NextLoad]_vars

(***************************************************************************)
(* One invocation at a time on resolvable targets, every fetch the         *)
(* transport is given settling in the end: the event loop runs a handler   *)
(* that stays ready, and the transport resolves or rejects each fetch.     *)
(***************************************************************************)
NextLive ==
  \/ invocations = <<>> /\ onRecoItemButtonClicked
  \/ invocations = <<>> /\ onRecoItemsInViewButtonClicked
  \/ \E n \in Live, host \in LoadHostStates : StartRequest(n, host)
  \/ \E n \in Live : RequestSent(n)
  \/ \E n \in Live, outcome \in FetchOutcomes(SnapshotDocs) : SnapshotSettled(n, outcome)
  \/ \E n \in Live, outcome \in PostOutcomes \cup LoadOutcomes : PostSettled(n, outcome)

Fairness ==
  /\ WF_vars(\E n \in Live, host \in LoadHostStates : StartRequest(n, host))
  /\ WF_vars(\E n \in Live : RequestSent(n))
  /\ WF_vars(\E n \in Live, outcome \in FetchOutcomes(SnapshotDocs) :
               SnapshotSettled(n, outcome))
  /\ WF_vars(\E n \in Live, outcome \in PostOutcomes \cup LoadOutcomes :
               PostSettled(n, outcome))

SpecLive == Init /\ [][NextLive]_vars /\ Fairness

(***************************************************************************)
(* One invocation at a time with the toggles changed at any time, each     *)
(* invocation keeping the toggles of its click.                            *)
(***************************************************************************)
InitToggle ==
  /\ recoArxivRsDbAllowed = FALSE
  /\ recoIeeeXploreRsDbAllowed = FALSE
  /\ recoAuthorsFiltered = FALSE
  /\ recoConfNameFiltered = FALSE
  /\ loadElem = InitialLoadElem
  /\ sectionElems = InitialSectionElems
  /\ resultElems = InitialResultElems
  /\ invocations = <<>>
  /\ handled = NoOutcome
  /\ adaptItem = BaseItem
  /\ adaptRun = NotStarted
  /\ singleTarget = NoSingleTarget
  /\ tracing = TRUE

NextToggle ==
  \/ \E checked \in BOOLEAN : onRecoArxivRsDbClicked(checked)
  \/ \E checked \in BOOLEAN : onRecoIeeeXploreRsDbClicked(checked)
  \/ \E checked \in BOOLEAN : onRecoAuthorsFilterClicked(checked)
  \/ \E checked \in BOOLEAN : onRecoConfNameFilterClicked(checked)
  \/ invocations = <<>> /\ onRecoItemButtonClicked
  \/ invocations = <<>> /\ onRecoItemsInViewButtonClicked
  \/ \E n \in Live, host \in LoadHostStates : StartRequest(n, host)
  \/ \E n \in Live : RequestSent(n)
  \/ \E n \in Live, outcome \in FetchOutcomes(SnapshotDocs) : SnapshotSettled(n, outcome)
  \/ \E n \in Live, outcome \in PostOutcomes : PostSettled(n, outcome)

SpecToggle == InitToggle /\ [][NextToggle]_vars

(***************************************************************************)
(* Overlapping invocations on one library, the toggles left alone, over    *)
(* responses of every shape: entries that lack display fields, an entry    *)
(* whose authors list is empty, and bodies that lack some of their keys.   *)
(***************************************************************************)
\* An entry without authors and without a URL.
Result3 == [title |-> <<"R3">>, year |-> <<"1999">>, author_based_ranking |-> <<"1">>,
            citation_based_ranking |-> <<"1">>, citation_count_ranking |-> <<"1">>,
            keyword_based_ranking |-> <<"1">>]

\* An entry whose authors list is empty.
Result4 == [Result1 EXCEPT !["title"] = <<"R4">>, !["authors"] = <<>>]

ShapedOutcomes ==
  {Outcome("json", <<"200">>, <<"OK">>, json) :
     json \in {Response(10000, <<Result1>>, <<Result2, Result3>>),
               Response(20000, <<Result3, Result1>>, <<>>)}}

ThrowingOutcomes ==
  {Outcome("json", <<"200">>, <<"OK">>, json) :
     json \in {Response(40000, <<Result1, Result4>>, <<Result1>>),
               Response(50000, <<Result2>>, <<Result4, Result1>>)}}

\* The keys the two-section and the three-section controller read.
ResponseKeys == {"processing_time", "ranked_existing_resources",
                 "ranked_database_resources", "ranked_citation_resources"}

FullResponse ==
  [k \in ResponseKeys |->
     IF k = "processing_time" THEN 60000
     ELSE IF k = "ranked_existing_resources" THEN <<Result2>>
     ELSE IF k = "ranked_database_resources" THEN <<Result1>>
     ELSE <<Result3>>]

\* 2xx responses whose body holds every key, every key but one, or none.
PartialOutcomes ==
  {Outcome("json", <<"200">>, <<"OK">>, [k \in keys |-> FullResponse[k]]) :
     keys \in {ResponseKeys, {}} \cup {ResponseKeys \ {k} : k \in ResponseKeys}}

ViewOutcomes == ShapedOutcomes \cup ThrowingOutcomes \cup PartialOutcomes \cup PostOutcomes

ViewHostStates == {[selected |-> Paper, sorted |-> <<Talk, Paper>>]}

\* The three-section controller's handler up to updateResultViews: the
\* error its reads end with, Undefined if it gets to the view.
ErrorBeforeCitationView(outcome) ==
  IF outcome.kind = "rejected"
  THEN ErrorText("TypeError", <<"NetworkError when attempting to fetch resource.">>)
  ELSE IF outcome.kind = "notok"
  THEN ErrorText("Error", ApiUrl \o <<": ">> \o outcome.status \o <<": ">> \o outcome.statusText)
  ELSE IF outcome.kind = "badjson"
  THEN ErrorText("SyntaxError", <<"JSON.parse: unexpected character">>)
  ELSE IF "ranked_existing_resources" \notin DOMAIN outcome.json
  THEN ErrorText("TypeError", <<"rankedExistingData is undefined">>)
  ELSE IF "ranked_database_resources" \notin DOMAIN outcome.json
  THEN ErrorText("TypeError", <<"rankedDatabaseData is undefined">>)
  ELSE IF "ranked_citation_resources" \notin DOMAIN outcome.json
  THEN ErrorText("TypeError", <<"rankedCitationData is undefined">>)
  ELSE IF "processing_time" \notin DOMAIN outcome.json
  THEN ErrorText("TypeError", <<"procTime is undefined">>)
  ELSE Undefined

NextView ==
  \/ onRecoItemButtonClicked
  \/ onRecoItemsInViewButtonClicked
  \/ \E n \in Live, host \in ViewHostStates : StartRequest(n, host)
  \/ \E n \in Live : RequestSent(n)
  \/ \E n \in Live, outcome \in ViewOutcomes : PostSettled(n, outcome)

SpecView == Init /\ [][NextView]_vars

(***************************************************************************)
(* One invocation at a time, over responses whose lists are as long as a   *)
(* section has slots, or longer.                                           *)
(***************************************************************************)
\* One entry more than a section has slots, each with its own title.
LongList ==
  [i \in 1..(MAX_RESULT_COUNT + 1) |-> [Result2 EXCEPT !["title"] = <<"R", ToString(i)>>]]

LongOutcomes ==
  {Outcome("json", <<"200">>, <<"OK">>, Response(30000, existing, database)) :
     existing, database \in {<<>>, <<Result1>>, SubSeq(LongList, 1, MAX_RESULT_COUNT),
                              LongList}}

NextLong ==
  \/ invocations = <<>> /\ onRecoItemButtonClicked
  \/ invocations = <<>> /\ onRecoItemsInViewButtonClicked
  \/ \E n \in Live, host \in ViewHostStates : StartRequest(n, host)
  \/ \E n \in Live : RequestSent(n)
  \/ \E n \in Live, outcome \in LongOutcomes : PostSettled(n, outcome)

SpecLong == Init /\ [][NextLong]_vars

(***************************************************************************)
(* The earlier record adapter on its own.                                  *)
(***************************************************************************)
NextSync == AdaptSync

SpecSync == InitAdapt /\ [][NextSync]_vars

(***************************************************************************)
(* The single-target controller (two filter toggles, one button; request   *)
(* keys targets, existing_related, filter), up to the sending of its POST. *)
(***************************************************************************)
\* The names of the own properties of an array.
OwnPropertiesOfArray(a) == {ToString(i - 1) : i \in 1..Len(a)} \cup {"length"}

\* #getRecoFilter(targetData) as onRecoButtonClicked calls it: targetData is
\* the array [data], and hasOwnProperty is asked of the array.
getRecoFilterSingle(targetData) ==
  LET keys == {k \in {"authors", "conference_name"} :
                 /\ k \in OwnPropertiesOfArray(targetData)
                 /\ \/ k = "authors" /\ recoAuthorsFiltered
                    \/ k = "conference_name" /\ recoConfNameFiltered}
  IN [k \in keys |-> targetData[k]]

\* The single-target controller's #getAuthorsFromZoteroItem: the creators
\* whose creatorTypeID is 0.
getAuthorsFromZoteroItemByID(item) ==
  LET authors == SelectSeq(item.creators, LAMBDA c : c.creatorTypeID = 0)
  IN [i \in 1..Len(authors) |-> authors[i].firstName \o <<" ">> \o authors[i].lastName]

\* The single-target controller's #getDataFromZoteroItem.
getDataFromZoteroItemSingle(item) ==
  LET values == [authors |-> getAuthorsFromZoteroItemByID(item),
                 conference_name |-> getField(item, "conferenceName"),
                 conference_location |-> getField(item, "place"),
                 title |-> getField(item, "title"),
                 year |-> getYearFromZoteroItemFlanked(item),
                 abstract |-> getField(item, "abstractNote"),
                 doi |-> getField(item, "DOI"),
                 url |-> getField(item, "url")]
  IN [k \in {f \in DOMAIN values : values[f] # <<>>} |-> values[k]]

SingleRequestBody(targetItem, existingRelatedItems) ==
  LET targetData == <<getDataFromZoteroItemSingle(targetItem)>>
  IN [targets |-> targetData,
      existing_related |-> [i \in 1..Len(existingRelatedItems) |->
                              getDataFromZoteroItemSingle(existingRelatedItems[i])],
      filter |-> getRecoFilterSingle(targetData)]

\* Records of the host as the single-target controller reads them: creators
\* carry a creatorTypeID.
SingleCreators ==
  {[creatorTypeID |-> id, firstName |-> first, lastName |-> <<"D">>] :
     id \in {0, 1}, first \in {<<"J">>, <<"R">>}}

SingleItems ==
  {[BaseItem EXCEPT !.creators = cs, !.fields["conferenceName"] = name] :
     cs \in TextsUpTo(SingleCreators, MaxCreators), name \in {<<>>, <<"I">>}}

SingleOther == [BaseItem EXCEPT !.fields["title"] = <<"T">>,
                                !.fields["date"] = <<" ", "1", "9", "9", "9", " ">>]

\* The child items of the selected collection; none when no collection is
\* selected.
SingleCollections(selected) == {<<>>, <<selected>>, <<SingleOther, selected>>}

\* onRecoButtonClicked: the view is cleared, the loading text is shown and
\* the POST is made for the selected record and the selected collection.
onRecoButtonClicked ==
  /\ \E v \in {updateResultViews(View, <<>>)} :
       /\ sectionElems' = v.sections
       /\ resultElems' = v.slots
  /\ loadElem' = updateLoadingView(loadElem, TRUE, Undefined)
  /\ \E existingRelatedItems \in SingleCollections(singleTarget.selected) :
       singleTarget' = [singleTarget EXCEPT
                          !.body = SingleRequestBody(singleTarget.selected,
                                                     existingRelatedItems)]
  /\ UNCHANGED <<toggleVars, invocations, handled, adaptItem, adaptRun, tracing>>

InitSingle ==
  /\ recoArxivRsDbAllowed = FALSE
  /\ recoIeeeXploreRsDbAllowed = FALSE
  /\ recoAuthorsFiltered = FALSE
  /\ recoConfNameFiltered = FALSE
  /\ loadElem = InitialLoadElem
  /\ sectionElems = InitialSectionElems
  /\ resultElems = InitialResultElems
  /\ invocations = <<>>
  /\ handled = NoOutcome
  /\ adaptItem = BaseItem
  /\ adaptRun = NotStarted
  /\ singleTarget \in {[selected |-> item, body |-> NoSingleBody] : item \in SingleItems}
  /\ tracing = FALSE

NextSingle ==
  \/ \E checked \in BOOLEAN : onRecoAuthorsFilterClicked(checked)
  \/ \E checked \in BOOLEAN : onRecoConfNameFilterClicked(checked)
  \/ onRecoButtonClicked

SpecSingle == InitSingle /\ [][NextSingle]_vars

(***************************************************************************)
(* What is shown.                                                          *)
(***************************************************************************)
AllResultsHidden ==
  /\ \A l \in Sections : sectionElems[l] = "none"
  /\ \A l \in Sections : \A i \in Slots : SlotAt(resultElems[l], i).display = "none"

LoadingShown == loadElem.display = "block" /\ loadElem.innerText = LoadText

\* sub occurs in text as a run of consecutive tokens.
ContainsText(text, sub) ==
  \E i \in 1..(Len(text) - Len(sub) + 1) : SubSeq(text, i, i + Len(sub) - 1) = sub

IsErrorText(text) == Len(text) > 1 /\ text[2] = ": "

FailureOutcomes == {o \in PostOutcomes : o.kind \in {"notok", "rejected"}}
NotOkOutcomes == {o \in PostOutcomes : o.kind = "notok"}

(***************************************************************************)
(* C1.  If invocation A starts, B starts before A resolves, B's response   *)
(* is shown first and A then fails, the view ends in A's error state: the  *)
(* error description is shown and every result section and entry is        *)
(* hidden.                                                                 *)
(***************************************************************************)
C1_LastWriteWins ==
  [][\A n \in Live : \A o \in FailureOutcomes :
       (/\ invocations[n].overlap = "overtaken"
        /\ IsSummary(loadElem.innerText)
        /\ PostSettled(n, o))
       => (/\ loadElem'.display = "block"
           /\ IsErrorText(loadElem'.innerText)
           /\ AllResultsHidden')]_vars

(***************************************************************************)
(* C2.  An invocation that no other invocation overlaps and whose POST is  *)
(* answered with a non-2xx status ends in the error state: the status      *)
(* element is visible, its text contains the request URL, the status code  *)
(* and the status text, and every result section and entry is hidden.      *)
(***************************************************************************)
C2_NonOkEndsInErrorState ==
  [][\A n \in Live : \A o \in NotOkOutcomes :
       (invocations[n].overlap = "none" /\ PostSettled(n, o))
       => (/\ loadElem'.display = "block"
           /\ ContainsText(loadElem'.innerText, ApiUrl)
           /\ ContainsText(loadElem'.innerText, o.status)
           /\ ContainsText(loadElem'.innerText, o.statusText)
           /\ AllResultsHidden')]_vars

C2_Witness ==
  /\ invocations = <<>>
  /\ loadElem.display = "block"
  /\ ContainsText(loadElem.innerText, ApiUrl \o <<": ", "500", ": ">>)
  /\ AllResultsHidden
  /\ SlotAt(resultElems[1], 0).title = <<"R1">>

(***************************************************************************)
(* C3.  When a click handler has updated the view, whatever was shown      *)
(* before and whatever requests are outstanding, every result section and  *)
(* entry is hidden and the status element shows the default loading text;  *)
(* the invocation has not started any request yet.                         *)
(***************************************************************************)
C3_ClickShowsLoading ==
  \A n \in Live :
    invocations[n].pc = "clicked"
    => /\ AllResultsHidden
       /\ LoadingShown
       /\ invocations[n].targetRuns = <<>>
       /\ invocations[n].body = NoBody

C3_Witness ==
  /\ Len(invocations) = 2
  /\ invocations[1].pc = "posted"
  /\ invocations[2].pc = "clicked"
  /\ SlotAt(resultElems[1], 1).title = <<"R2">>
  /\ AllResultsHidden
  /\ LoadingShown

(***************************************************************************)
(* C4.  Every failure in an invocation's flow is caught and shown as an    *)
(* error description: once no invocation is outstanding, the status        *)
(* element does not show the loading text any more.                        *)
(***************************************************************************)
C4_FailuresAreShown == invocations = <<>> => ~LoadingShown

(***************************************************************************)
(* C5.  The filter of a request has the key authors iff authors-filtered   *)
(* is on and the first target's fragment has a non-empty authors field,    *)
(* the key conference_name iff conference-filtered is on and that fragment *)
(* has a non-empty conference_name field; each value is the fragment's,    *)
(* and there are no other keys.                                            *)
(***************************************************************************)
C5_FilterFromFirstTarget ==
  \A n \in Live :
    invocations[n].pc = "posting"
    => LET filter == invocations[n].body.filter
           first == invocations[n].body.target_resources[1]
           has(k) == k \in DOMAIN first /\ first[k] # <<>>
       IN /\ DOMAIN filter \subseteq {"authors", "conference_name"}
          /\ "authors" \in DOMAIN filter <=> (recoAuthorsFiltered /\ has("authors"))
          /\ "conference_name" \in DOMAIN filter
               <=> (recoConfNameFiltered /\ has("conference_name"))
          /\ \A k \in DOMAIN filter : filter[k] = first[k]

C5_Witness ==
  \E n \in Live :
    /\ invocations[n].pc = "posting"
    /\ Len(invocations[n].body.target_resources) = 2
    /\ DOMAIN invocations[n].body.filter = {"authors", "conference_name"}
    /\ "conference_name" \notin DOMAIN invocations[n].body.target_resources[2]

(***************************************************************************)
(* C6.  resource_databases holds "arxiv" iff arxiv-allowed is on and       *)
(* "ieeexplore" iff ieee-allowed is on, nothing else, nothing twice, and   *)
(* "arxiv" before "ieeexplore" when both are there.                        *)
(***************************************************************************)
C6_ResourceDatabases ==
  \A n \in Live :
    invocations[n].pc = "posting"
    => LET dbs == invocations[n].body.resource_databases
           listed == {dbs[i] : i \in 1..Len(dbs)}
       IN /\ listed \subseteq {"arxiv", "ieeexplore"}
          /\ "arxiv" \in listed <=> recoArxivRsDbAllowed
          /\ "ieeexplore" \in listed <=> recoIeeeXploreRsDbAllowed
          /\ Len(dbs) = Cardinality(listed)
          /\ Len(dbs) = 2 => dbs[1] = "arxiv"

C6_Witness ==
  \E n \in Live :
    /\ invocations[n].pc = "posting"
    /\ invocations[n].body.resource_databases = <<"arxiv", "ieeexplore">>

(***************************************************************************)
(* C7.  In every fragment the adapter returns, no key is present with an   *)
(* empty string or an empty list as its value.                             *)
(***************************************************************************)
C7_NoEmptyValue ==
  adaptRun.st = "done" => \A k \in DOMAIN adaptRun.data : adaptRun.data[k] # <<>>

(***************************************************************************)
(* C8.  A directly read text field whose value is empty after trimming     *)
(* surrounding whitespace has no key in the fragment.                      *)
(***************************************************************************)
RECURSIVE TrimStart(_)
TrimStart(text) ==
  IF Len(text) > 0 /\ text[1] \in SpaceChars THEN TrimStart(Tail(text)) ELSE text

RECURSIVE TrimEnd(_)
TrimEnd(text) ==
  IF Len(text) > 0 /\ text[Len(text)] \in SpaceChars
  THEN TrimEnd(SubSeq(text, 1, Len(text) - 1))
  ELSE text

Trim(text) == TrimEnd(TrimStart(text))

KeyOfField ==
  [conferenceName |-> "conference_name", place |-> "conference_location",
   title |-> "title", abstractNote |-> "abstract", DOI |-> "doi", url |-> "url"]

C8_TrimmedEmptyIsAbsent ==
  adaptRun.st = "done"
  => \A f \in DOMAIN KeyOfField :
       Trim(getField(adaptItem, f)) = <<>> => KeyOfField[f] \notin DOMAIN adaptRun.data

(***************************************************************************)
(* C9.  The authors of a fragment are the creators whose role is "author", *)
(* each as given name, one space, family name, in the order of the         *)
(* creator list; no other creator appears.  (No key when there is none.)   *)
(***************************************************************************)
AuthorPositions(item) ==
  {i \in 1..Len(item.creators) : item.creators[i].creatorType = "author"}

\* The j-th smallest element of the set S of numbers.
Nth(S, j) == CHOOSE x \in S : Cardinality({y \in S : y < x}) = j - 1

C9_AuthorsInOrder ==
  adaptRun.st = "done"
  => LET pos == AuthorPositions(adaptItem)
         data == adaptRun.data
     IN IF pos = {} THEN "authors" \notin DOMAIN data
        ELSE /\ "authors" \in DOMAIN data
             /\ Len(data["authors"]) = Cardinality(pos)
             /\ \A j \in 1..Cardinality(pos) :
                  LET c == adaptItem.creators[Nth(pos, j)]
                  IN data["authors"][j] = c.firstName \o <<" ">> \o c.lastName

C9_Witness ==
  /\ adaptRun.st = "done"
  /\ adaptItem.creators = <<JaneDoe, EdItor, JohnRoe>>
  /\ adaptRun.data["authors"] = << <<"J", " ", "D">>, <<"R", " ">> >>

(***************************************************************************)
(* C10.  A date text with exactly one run of four digits flanked by        *)
(* non-digit characters gives those four digits as the year.               *)
(***************************************************************************)
\* The positions where a run of exactly four digits starts in s.
FourDigitRuns(s) ==
  {i \in 1..Len(s) :
     /\ i + 3 <= Len(s)
     /\ \A k \in i..(i + 3) : IsDigit(s[k])
     /\ i > 1 => ~IsDigit(s[i - 1])
     /\ i + 4 <= Len(s) => ~IsDigit(s[i + 4])}

\* As claimed: whatever the non-digit characters on both sides are.
C10_YearOfFlankedRun ==
  adaptRun.st = "done"
  => LET date == getField(adaptItem, "date")
         runs == FourDigitRuns(date)
     IN (/\ Cardinality(runs) = 1
         /\ \A i \in runs : i > 1 /\ i + 4 <= Len(date))
        => /\ "year" \in DOMAIN adaptRun.data
           /\ \A i \in runs : adaptRun.data["year"] = SubSeq(date, i, i + 3)

\* Amended: the characters on both sides are not word characters (letters,
\* digits, underscore), or the run is at an end of the text.
C10_YearOfDelimitedRun ==
  adaptRun.st = "done"
  => LET date == getField(adaptItem, "date")
         runs == FourDigitRuns(date)
     IN (/\ Cardinality(runs) = 1
         /\ \A i \in runs : /\ i > 1 => ~IsWordChar(date[i - 1])
                            /\ i + 4 <= Len(date) => ~IsWordChar(date[i + 4]))
        => /\ "year" \in DOMAIN adaptRun.data
           /\ \A i \in runs : adaptRun.data["year"] = SubSeq(date, i, i + 3)

C10_Witness ==
  /\ adaptRun.st = "done"
  /\ getField(adaptItem, "date") = <<"a", " ", "1", "9", "1", "9">>
  /\ adaptRun.data["year"] = <<"1", "9", "1", "9">>

(***************************************************************************)
(* C11.  End to end: a single target with a title, a date that is just a   *)
(* four-digit year and one author creator, authors-filtered and            *)
(* arxiv-allowed on and the other two toggles off, is posted with          *)
(* target_resources = [{title, year = the date, authors = ["first last"]}],*)
(* filter = {authors: that list} and resource_databases = ["arxiv"].       *)
(***************************************************************************)
\* A record as in the scenario: nothing but a title, a year and one author.
IsPlainRecord(item) ==
  /\ item # NoItem
  /\ ~IsWebItem(item)
  /\ Len(item.creators) = 1
  /\ item.creators[1].creatorType = "author"
  /\ Len(getField(item, "date")) = 4
  /\ \A k \in 1..4 : IsDigit(getField(item, "date")[k])
  /\ \A f \in FieldNames :
       getField(item, f) # <<>> <=> f \in {"title", "date"}

C11_EndToEndBody ==
  \A n \in Live :
    (/\ invocations[n].pc = "posting"
     /\ Len(invocations[n].targetItems) = 1
     /\ IsPlainRecord(invocations[n].targetItems[1])
     /\ recoAuthorsFiltered /\ recoArxivRsDbAllowed
     /\ ~recoConfNameFiltered /\ ~recoIeeeXploreRsDbAllowed)
    => LET item == invocations[n].targetItems[1]
           c == item.creators[1]
           authors == <<c.firstName \o <<" ">> \o c.lastName>>
           body == invocations[n].body
       IN /\ body.target_resources =
               <<[title |-> getField(item, "title"),
                  year |-> getField(item, "date"),
                  authors |-> authors]>>
          /\ body.filter = [authors |-> authors]
          /\ body.resource_databases = <<"arxiv">>

C11_Witness ==
  \E n \in Live :
    /\ invocations[n].pc = "posting"
    /\ invocations[n].targetItems = <<Paper>>
    /\ recoAuthorsFiltered /\ recoArxivRsDbAllowed
    /\ ~recoConfNameFiltered /\ ~recoIeeeXploreRsDbAllowed
    /\ invocations[n].body.filter = [authors |-> << <<"J", " ", "D">> >>]

(***************************************************************************)
(* C12.  An invocation whose targets the host resolves makes exactly one   *)
(* POST in its lifetime, whatever the item types of its records: when it   *)
(* ends, with a handled response or otherwise, it has posted once.         *)
(***************************************************************************)
HasResolvableTargets(inv) ==
  /\ Len(inv.targetItems) > 0
  /\ \A i \in 1..Len(inv.targetItems) : inv.targetItems[i] # NoItem

C12_ExactlyOnePost ==
  [][\A n \in Live :
       (/\ HasResolvableTargets(invocations[n])
        /\ \/ \E o \in FetchOutcomes(SnapshotDocs) :
                SnapshotSettled(n, o) /\ Len(invocations') < Len(invocations)
           \/ \E o \in PostOutcomes : PostSettled(n, o))
       => invocations[n].posts = 1]_vars

(***************************************************************************)
(* C16.  The record adapter never fails: whatever the record and however   *)
(* the fetch of its snapshot settles, no run of the adapter ends with its  *)
(* promise rejected.                                                       *)
(***************************************************************************)
C16_AdapterNeverFails == adaptRun.st # "rejected"

(***************************************************************************)
(* C15.  The loaded and the errored state are stable: once the status      *)
(* element shows a result summary or an error description, the status      *)
(* text and the result sections stay as they are until a new invocation    *)
(* starts.                                                                 *)
(***************************************************************************)
TerminalShown ==
  /\ loadElem.display = "block"
  /\ IsSummary(loadElem.innerText) \/ IsErrorText(loadElem.innerText)

C15_TerminalStatesStable ==
  [][(TerminalShown /\ Len(invocations') <= Len(invocations))
     => UNCHANGED <<loadElem, sectionElems, resultElems>>]_vars

(***************************************************************************)
(* C17.  Each of the four flags starts false and changes only in a step    *)
(* of its own toggle handler, which sets it to the boolean it received and *)
(* changes no other flag and nothing of the view; no click on a recommend  *)
(* button, response or failure changes a flag.                             *)
(***************************************************************************)
C17_FlagsOwnedByHandlers ==
  /\ ~recoArxivRsDbAllowed /\ ~recoIeeeXploreRsDbAllowed
  /\ ~recoAuthorsFiltered /\ ~recoConfNameFiltered
  /\ [][/\ recoArxivRsDbAllowed' # recoArxivRsDbAllowed
             => \E checked \in BOOLEAN : onRecoArxivRsDbClicked(checked)
        /\ recoIeeeXploreRsDbAllowed' # recoIeeeXploreRsDbAllowed
             => \E checked \in BOOLEAN : onRecoIeeeXploreRsDbClicked(checked)
        /\ recoAuthorsFiltered' # recoAuthorsFiltered
             => \E checked \in BOOLEAN : onRecoAuthorsFilterClicked(checked)
        /\ recoConfNameFiltered' # recoConfNameFiltered
             => \E checked \in BOOLEAN : onRecoConfNameFilterClicked(checked)
        /\ \A checked \in BOOLEAN :
             /\ onRecoArxivRsDbClicked(checked)
                  => /\ recoArxivRsDbAllowed' = checked
                     /\ UNCHANGED <<recoIeeeXploreRsDbAllowed, recoAuthorsFiltered,
                                    recoConfNameFiltered, viewVars>>
             /\ onRecoIeeeXploreRsDbClicked(checked)
                  => /\ recoIeeeXploreRsDbAllowed' = checked
                     /\ UNCHANGED <<recoArxivRsDbAllowed, recoAuthorsFiltered,
                                    recoConfNameFiltered, viewVars>>
             /\ onRecoAuthorsFilterClicked(checked)
                  => /\ recoAuthorsFiltered' = checked
                     /\ UNCHANGED <<recoArxivRsDbAllowed, recoIeeeXploreRsDbAllowed,
                                    recoConfNameFiltered, viewVars>>
             /\ onRecoConfNameFilterClicked(checked)
                  => /\ recoConfNameFiltered' = checked
                     /\ UNCHANGED <<recoArxivRsDbAllowed, recoIeeeXploreRsDbAllowed,
                                    recoAuthorsFiltered, viewVars>>]_vars

C17_Witness ==
  /\ recoIeeeXploreRsDbAllowed /\ recoConfNameFiltered
  /\ ~recoArxivRsDbAllowed /\ ~recoAuthorsFiltered
  /\ invocations = <<>>
  /\ IsSummary(loadElem.innerText)

(***************************************************************************)
(* C13.  After a successful response to a single invocation, for every     *)
(* result section: the header is visible iff the response's list for the   *)
(* section is not empty; entry i of the list is shown in slot i, with its   *)
(* title and with each ranking field prefixed by its label; every further  *)
(* slot of the section is hidden.  (A section shows its own list only.)    *)
(***************************************************************************)
\* The list a response holds for section l.
ListOfSection(json, l) ==
  IF l = 0 THEN json["ranked_existing_resources"] ELSE json["ranked_database_resources"]

ShowsEntry(slot, entry) ==
  /\ slot.display = "block"
  /\ slot.title = entry["title"]
  /\ slot.authorRank = <<"Author-based ranking:\t">> \o entry["author_based_ranking"]
  /\ slot.citationRank = <<"Citation-based ranking:\t">> \o entry["citation_based_ranking"]
  /\ slot.citCountRank = <<"Citation count ranking:\t">> \o entry["citation_count_ranking"]
  /\ slot.keywordRank = <<"Keyword-based ranking:\t">> \o entry["keyword_based_ranking"]

C13_SectionsShowTheirLists ==
  (handled \in LoadOutcomes /\ invocations = <<>>)
  => \A l \in Sections :
       LET list == ListOfSection(handled.json, l)
       IN /\ (sectionElems[l] = "block") <=> (Len(list) > 0)
          /\ sectionElems[l] \in {"block", "none"}
          /\ \A i \in Slots :
               IF i < Len(list)
               THEN ShowsEntry(SlotAt(resultElems[l], i), list[i + 1])
               ELSE SlotAt(resultElems[l], i).display = "none"

\* Both sections filled, from different lists, over what an earlier and
\* longer response had left in the slots.
C13_Witness ==
  /\ invocations = <<>>
  /\ handled \in LoadOutcomes
  /\ sectionElems = [l \in Sections |-> "block"]
  /\ ShowsEntry(SlotAt(resultElems[0], 0), Result2)
  /\ SlotAt(resultElems[0], 1).display = "none"
  /\ SlotAt(resultElems[0], 1).title = <<"R1">>
  /\ ShowsEntry(SlotAt(resultElems[1], 0), Result1)
  /\ ShowsEntry(SlotAt(resultElems[1], 1), Result2)

(***************************************************************************)
(* C14.  After a successful response the status element is visible and     *)
(* shows a summary instead of the loading text: its result count is the    *)
(* number of entries of all sections of the response together, and its     *)
(* target description is the quoted title of the target when the           *)
(* invocation had exactly one target and "<n> items" otherwise.            *)
(***************************************************************************)
DescribesTargets(text, targetItems) ==
  LET described == IF Len(targetItems) = 1
                   THEN <<"\"">> \o targetItems[1].fields["title"] \o <<"\"">>
                   ELSE <<ToString(Len(targetItems)), " items">>
      from == Len(text) - Len(described)
  IN /\ from > 1
     /\ text[from - 1] = " seconds for "
     /\ SubSeq(text, from, Len(text)) = described \o <<".">>

C14_SummaryShown ==
  [][\A n \in Live :
       (handled' \in LoadOutcomes /\ PostSettled(n, handled'))
       => LET text == loadElem'.innerText
              count == Len(handled'.json["ranked_existing_resources"])
                         + Len(handled'.json["ranked_database_resources"])
          IN /\ loadElem'.display = "block"
             /\ text # LoadText
             /\ Len(text) > 3
             /\ SubSeq(text, 1, 3) = <<"Loaded ", ToString(count), " results in ">>
             /\ DescribesTargets(text, invocations[n].targetItems)]_vars

C14_Witness ==
  /\ invocations = <<>>
  /\ handled \in LoadOutcomes
  /\ loadElem.display = "block"
  /\ SubSeq(loadElem.innerText, 1, 3) = <<"Loaded ", "3", " results in ">>
  /\ ContainsText(loadElem.innerText, <<" seconds for ", "2", " items", ".">>)

(***************************************************************************)
(* C18.  Adaptation keeps the order of the records: when the POST is made, *)
(* element i of target_resources is the fragment of the i-th target and    *)
(* element i of existing_resources the fragment of the i-th existing       *)
(* record, both lists as long as their inputs, in whatever order the       *)
(* snapshot fetches of the records settled.                                *)
(***************************************************************************)
\* data is a fragment of item: but for the abstract, which the snapshot may
\* extend, it holds the non-empty fields of the item under their keys.
IsFragmentOf(data, item) ==
  /\ DOMAIN data \subseteq
       {"authors", "conference_name", "conference_location", "title", "year",
        "abstract", "doi", "url"}
  /\ \A f \in DOMAIN KeyOfField \ {"abstractNote"} :
       IF getField(item, f) = <<>> THEN KeyOfField[f] \notin DOMAIN data
       ELSE KeyOfField[f] \in DOMAIN data /\ data[KeyOfField[f]] = getField(item, f)

FragmentsInOrder(fragments, items) ==
  /\ Len(fragments) = Len(items)
  /\ \A i \in 1..Len(items) : IsFragmentOf(fragments[i], items[i])

C18_FragmentsKeepOrder ==
  \A n \in Live :
    invocations[n].pc = "posting"
    => /\ FragmentsInOrder(invocations[n].body.target_resources, invocations[n].targetItems)
       /\ FragmentsInOrder(invocations[n].body.existing_resources,
                           invocations[n].existingItems)

\* The second target's snapshot settled before the first one's.
C18_Witness ==
  \E n \in Live :
    /\ invocations[n].pc = "posting"
    /\ invocations[n].targetItems = <<Page, Blog>>
    /\ invocations[n].settled = <<2, 1>>
    /\ invocations[n].body.target_resources[1]["title"] = <<"P">>
    /\ invocations[n].body.target_resources[2]["title"] = <<"B">>

(***************************************************************************)
(* C19.  With the earlier rule for the year (digits flanked by non-digit   *)
(* characters), a date text with exactly one run of four digits flanked    *)
(* by non-digits gives exactly those four digits as the year of the        *)
(* fragment, without the flanking characters.                              *)
(***************************************************************************)
C19_FlankedRuleYieldsDigits ==
  adaptRun.st = "done"
  => LET date == getField(adaptItem, "date")
         runs == FourDigitRuns(date)
     IN (/\ Cardinality(runs) = 1
         /\ \A i \in runs : i > 1 /\ i + 4 <= Len(date))
        => /\ "year" \in DOMAIN adaptRun.data
           /\ \A i \in runs : adaptRun.data["year"] = SubSeq(date, i, i + 3)

(***************************************************************************)
(* C20.  In the single-target controller, the filter of the request holds  *)
(* authors, equal to the target fragment's, when authors-filtered is on    *)
(* and the selected record has an author, and no authors when the toggle   *)
(* is off; likewise conference_name with conference-filtered.              *)
(***************************************************************************)
C20_SingleTargetFilter ==
  [][onRecoButtonClicked
     => LET filter == singleTarget'.body.filter
            fragment == singleTarget'.body.targets[1]
            sent(k, on) ==
              /\ (on /\ k \in DOMAIN fragment)
                   => (k \in DOMAIN filter /\ filter[k] = fragment[k])
              /\ ~on => k \notin DOMAIN filter
        IN /\ sent("authors", recoAuthorsFiltered)
           /\ sent("conference_name", recoConfNameFiltered)]_vars

StartsWith(text, prefix) ==
  Len(prefix) <= Len(text) /\ SubSeq(text, 1, Len(prefix)) = prefix

C22_LoadingWhileOutstanding == invocations # <<>> => LoadingShown

(***************************************************************************)
(* C23.  If the transport settles every request and every snapshot fetch   *)
(* it is given, an invocation with resolvable targets runs one of its two  *)
(* completion handlers in the end: a time comes when no request is         *)
(* outstanding and the display is loaded or errored, no longer showing     *)
(* the default loading text.                                               *)
(***************************************************************************)
C23_InvocationCompletes ==
  (invocations # <<>>) ~> (invocations = <<>> /\ loadElem.display = "block" /\ ~LoadingShown)

(***************************************************************************)
(* C24.  The filter and the resource_databases of an invocation's request  *)
(* are those of the toggles as they were when its button was clicked: a    *)
(* toggle changed after the click and before the POST is sent, while the   *)
(* records are still being adapted, does not affect the request.           *)
(***************************************************************************)
C24_TogglesAsAtClick ==
  \A n \in Live :
    invocations[n].pc = "posting"
    => LET body == invocations[n].body
           was == invocations[n].atClick
           first == body.target_resources[1]
       IN /\ body.resource_databases =
               (IF was[1] THEN <<"arxiv">> ELSE <<>>)
                 \o (IF was[2] THEN <<"ieeexplore">> ELSE <<>>)
          /\ "authors" \in DOMAIN body.filter <=> (was[3] /\ "authors" \in DOMAIN first)
          /\ "conference_name" \in DOMAIN body.filter
               <=> (was[4] /\ "conference_name" \in DOMAIN first)

(***************************************************************************)
(* C25.  Populating the results is all-or-nothing: when the handling of    *)
(* the response of an invocation that no other invocation overlaps ends    *)
(* with an error description shown, whatever the response holds, no        *)
(* section header and no entry is visible: the sections are as the click   *)
(* cleared them.                                                           *)
(***************************************************************************)
C25_ErrorLeavesSectionsCleared ==
  [][\A n \in Live :
       (/\ invocations[n].overlap = "none"
        /\ PostSettled(n, handled')
        /\ IsErrorText(loadElem'.innerText))
       => AllResultsHidden']_vars

(***************************************************************************)
(* C26.  A 2xx response whose body lacks a result list or the processing   *)
(* time does not leave the loading text and makes nothing visible: its     *)
(* handling shows an error description and leaves every section and entry  *)
(* as it was (hidden, when no other invocation overlaps).  The same reads  *)
(* end in an error in the three-section controller.                        *)
(***************************************************************************)
LacksKey(outcome, keys) ==
  outcome.kind = "json" /\ \E k \in keys : k \notin DOMAIN outcome.json

C26_MissingKeysEndInError ==
  [][\A n \in Live :
       PostSettled(n, handled')
       => /\ LacksKey(handled', ResponseKeys \ {"ranked_citation_resources"})
               => /\ loadElem'.display = "block"
                  /\ IsErrorText(loadElem'.innerText)
                  /\ UNCHANGED <<sectionElems, resultElems>>
                  /\ invocations[n].overlap = "none" => AllResultsHidden'
          /\ LacksKey(handled', ResponseKeys)
               => IsErrorText(ErrorBeforeCitationView(handled'))]_vars

C26_Witness ==
  /\ invocations = <<>>
  /\ handled \in PartialOutcomes
  /\ DOMAIN handled.json = ResponseKeys \ {"processing_time"}
  /\ loadElem.display = "block"
  /\ IsErrorText(loadElem.innerText)
  /\ AllResultsHidden

C28_FirstFiftyShown ==
  (handled \in LongOutcomes /\ invocations = <<>>)
  => /\ loadElem.display = "block"
     /\ IsSummary(loadElem.innerText)
     /\ \A l \in Sections :
          LET list == ListOfSection(handled.json, l)
              shown == Min({Len(list), MAX_RESULT_COUNT})
          IN /\ Cardinality({i \in Slots : SlotAt(resultElems[l], i).display = "block"}) = shown
             /\ \A i \in 0..(shown - 1) : ShowsEntry(SlotAt(resultElems[l], i), list[i + 1])
             /\ (sectionElems[l] = "block") <=> (Len(list) > 0)

C28_Witness ==
  /\ invocations = <<>>
  /\ handled \in LongOutcomes
  /\ Len(handled.json["ranked_existing_resources"]) = MAX_RESULT_COUNT + 1
  /\ Len(handled.json["ranked_database_resources"]) = MAX_RESULT_COUNT
  /\ IsSummary(loadElem.innerText)
  /\ \A l \in Sections :
       /\ SlotAt(resultElems[l], MAX_RESULT_COUNT - 1).display = "block"
       /\ SlotAt(resultElems[l], MAX_RESULT_COUNT - 1).title = <<"R", ToString(MAX_RESULT_COUNT)>>

(***************************************************************************)
(* C29.  The single-item invocation sends as target_resources the          *)
(* fragment of the selected record alone and as existing_resources the     *)
(* fragments of all records in the view, in view order, the selected one   *)
(* included when it is in the view; the items-in-view invocation sends     *)
(* the fragments of all records in the view as target_resources and an     *)
(* empty existing_resources.                                               *)
(***************************************************************************)
\* What the direct reads give, the abstract aside (a snapshot may add to it).
WithoutAbstract(data) == [k \in DOMAIN data \ {"abstract"} |-> data[k]]

FragmentsOf(fragments, items) ==
  /\ Len(fragments) = Len(items)
  /\ \A i \in 1..Len(items) :
       WithoutAbstract(fragments[i]) = WithoutAbstract(DirectData(items[i]))

C29_TargetsAndExisting ==
  /\ [](\A n \in Live :
          invocations[n].pc = "posting"
          => /\ FragmentsOf(invocations[n].body.target_resources, invocations[n].targetItems)
             /\ FragmentsOf(invocations[n].body.existing_resources,
                            invocations[n].existingItems))
  /\ [][\A n \in Live : \A host \in HostStates :
          (StartRequest(n, host) /\ Len(invocations') = Len(invocations))
          => IF invocations[n].kind = "item"
             THEN /\ invocations'[n].targetItems = <<host.selected>>
                  /\ invocations'[n].existingItems = host.sorted
             ELSE /\ invocations'[n].targetItems = host.sorted
                  /\ invocations'[n].existingItems = <<>>]_vars

C29_Witness ==
  \E n \in Live :
    /\ invocations[n].pc = "posting"
    /\ invocations[n].kind = "item"
    /\ invocations[n].targetItems = <<Paper>>
    /\ Len(invocations[n].body.target_resources) = 1
    /\ Len(invocations[n].body.existing_resources) = 2
    /\ invocations[n].body.existing_resources[2] = invocations[n].body.target_resources[1]
    /\ invocations[n].body.existing_resources[1] # invocations[n].body.target_resources[1]

(***************************************************************************)
(* C30.  A displayed entry that lacks an optional display field shows      *)
(* that field's own placeholder in its slot and never another field's      *)
(* value: "No Year" for a missing year, "No URL" for a missing URL and     *)
(* "No Authors" for missing authors.                                       *)
(***************************************************************************)
PlaceholderOf == [authors |-> <<"No Authors">>, year |-> <<"No Year">>, url |-> <<"No URL">>]

C30_OwnPlaceholderShown ==
  (/\ loadElem.display = "block"
   /\ IsSummary(loadElem.innerText)
   /\ handled \in ShapedOutcomes)
  => \A l \in Sections :
       LET list == ListOfSection(handled.json, l)
       IN \A i \in 1..Len(list) : \A field \in DOMAIN PlaceholderOf :
            field \notin DOMAIN list[i]
            => SlotAt(resultElems[l], i - 1)[field] = PlaceholderOf[field]

====
